---------------------------- MODULE Spec2Model ----------------------------
(***************************************************************************)
(* Model of src/homework.py: the fitness-tracker module.                   *)
(*                                                                         *)
(* A Python object is a record holding its class name (type(self).__name__)*)
(* and its instance attributes.  A call's outcome is either a returned     *)
(* value, [kind |-> "ok", val |-> v], or a raised exception,               *)
(* [kind |-> <exception class name>].                                      *)
(*                                                                         *)
(* Numbers: the sensor values are Python ints (as in the packages of the   *)
(* __main__ block) and are stored in the attributes unchanged.  Every      *)
(* computed number is a Python float; it is modelled by the exact rational *)
(* <<n, d>> (d > 0, lowest terms) of the real-number formula, so binary    *)
(* rounding error and the signed zero of IEEE floats are outside the model.*)
(***************************************************************************)
EXTENDS Integers, Sequences, FiniteSets, TLC

VARIABLES
    obj,    \* the caller's variables holding Training objects: slot -> object
    ret,    \* the last call made: operation, arguments, slot, outcome
    memo    \* an outcome the caller saved from an earlier call (or NoMemo)

vars == <<obj, ret, memo>>

---------------------------------------------------------------------------
(* Exact rational arithmetic standing for Python's float operators.        *)

Abs(x) == IF x < 0 THEN -x ELSE x

RECURSIVE GCD(_, _)
GCD(a, b) == IF b = 0 THEN a ELSE GCD(b, a % b)

\* The rational n/d in lowest terms with a positive denominator (d # 0).
Norm(n, d) ==
    LET g == GCD(Abs(n), Abs(d))
        s == IF d < 0 THEN -1 ELSE 1
    IN  <<(s * n) \div g, (s * d) \div g>>

\* A Python int operand promoted to float.
Q(x) == <<x, 1>>

\* The operands are cancelled before they are multiplied, which keeps the
\* intermediate integers small.
RMul(a, b) ==
    LET g == GCD(Abs(a[1]), b[2])
        h == GCD(Abs(b[1]), a[2])
    IN  Norm((a[1] \div g) * (b[1] \div h), (a[2] \div h) * (b[2] \div g))
RAdd(a, b) ==
    LET g == GCD(a[2], b[2])
    IN  Norm(a[1] * (b[2] \div g) + b[1] * (a[2] \div g), (a[2] \div g) * b[2])
RSub(a, b) == RAdd(a, <<-b[1], b[2]>>)
\* a / b for b # 0; the callers raise ZeroDivisionError when b = 0.
RDiv(a, b) ==
    RMul(a, IF b[1] < 0 THEN <<-b[2], -b[1]>> ELSE <<b[2], b[1]>>)
\* a // b for b # 0: the quotient floored toward negative infinity.
RFloorDiv(a, b) ==
    LET q == RDiv(a, b) IN <<q[1] \div q[2], 1>>

---------------------------------------------------------------------------
(* Outcomes of calls.                                                      *)

Ok(v) == [kind |-> "ok", val |-> v]
Raise(e) == [kind |-> e]
IsOk(o) == o.kind = "ok"

---------------------------------------------------------------------------
(* Class attributes.                                                       *)

M_IN_KM == 1000
MIN_IN_HOUR == 60

\* LEN_STEP as looked up on an instance of class cls.
LEN_STEP(cls) == IF cls = "Swimming" THEN <<69, 50>> ELSE <<13, 20>>

Running_K1 == 18
Running_K2 == 20
SportsWalking_K1 == <<7, 200>>
SportsWalking_K2 == <<29, 1000>>
Swimming_K1 == <<11, 10>>
Swimming_K2 == 2

---------------------------------------------------------------------------
(* Constructors.  data is the sequence of positional arguments.            *)

\* Training.__init__ (inherited unchanged by Running).
Training__init__(cls, data) ==
    [cls |-> cls, action |-> data[1], duration |-> data[2], weight |-> data[3]]

SportsWalking__init__(cls, data) ==
    [cls |-> cls, action |-> data[1], duration |-> data[2], weight |-> data[3],
     height |-> data[4]]

\* Swimming.__init__ with the two pool arguments bound the wrong way round.
Swimming__init__swapped(cls, data) ==
    [cls |-> cls, action |-> data[1], duration |-> data[2], weight |-> data[3],
     length_pool |-> data[5], count_pool |-> data[4]]

Swimming__init__(cls, data) ==
    [cls |-> cls, action |-> data[1], duration |-> data[2], weight |-> data[3],
     length_pool |-> data[4], count_pool |-> data[5]]

\* The number of positional parameters of cls.__init__ besides self.
Arity(cls) ==
    CASE cls = "Swimming" -> 5
      [] cls = "SportsWalking" -> 4
      [] OTHER -> 3

\* A call cls(*data) that drops surplus values and fills missing ones with 0.
New_lenient(cls, data) ==
    LET padded == [i \in 1..Arity(cls) |->
                      IF i <= Len(data) THEN data[i] ELSE 0]
    IN  CASE cls = "Swimming" -> Ok(Swimming__init__(cls, padded))
          [] cls = "SportsWalking" -> Ok(SportsWalking__init__(cls, padded))
          [] OTHER -> Ok(Training__init__(cls, padded))

\* The call cls(*data): Python raises TypeError when the number of
\* positional arguments is not the number of parameters of __init__.
New(cls, data) ==
    IF Len(data) # Arity(cls) THEN Raise("TypeError")
    ELSE CASE cls = "Swimming" -> Ok(Swimming__init__(cls, data))
           [] cls = "SportsWalking" -> Ok(SportsWalking__init__(cls, data))
           [] OTHER -> Ok(Training__init__(cls, data))

---------------------------------------------------------------------------
(* Methods.  Each is the outcome of the call on the object self.           *)

\* Training.get_distance (inherited by every class).
get_distance(self) ==
    Ok(RDiv(RMul(Q(self.action), LEN_STEP(self.cls)), Q(M_IN_KM)))

Training_get_mean_speed(self) ==
    LET d == get_distance(self) IN
    IF ~IsOk(d) THEN d
    ELSE IF self.duration = 0 THEN Raise("ZeroDivisionError")
    ELSE Ok(RDiv(d.val, Q(self.duration)))

Swimming_get_mean_speed(self) ==
    LET metres == RMul(Q(self.length_pool), Q(self.count_pool))
        km == RDiv(metres, Q(M_IN_KM))
    IN  IF self.duration = 0 THEN Raise("ZeroDivisionError")
        ELSE Ok(RDiv(km, Q(self.duration)))

\* Method resolution without the override in Swimming.
get_mean_speed_no_override(self) == Training_get_mean_speed(self)

\* A Swimming.get_mean_speed that answers 0 for a zero duration.
get_mean_speed_guarded(self) ==
    IF self.duration = 0 THEN Ok(Q(0))
    ELSE IF self.cls = "Swimming" THEN Swimming_get_mean_speed(self)
    ELSE Training_get_mean_speed(self)

\* self.get_mean_speed(): the method the class of self resolves to.
get_mean_speed(self) ==
    IF self.cls = "Swimming" THEN Swimming_get_mean_speed(self)
    ELSE Training_get_mean_speed(self)

\* Training.hours_to_minutes (inherited by every class).
hours_to_minutes(self) == Ok(RMul(Q(MIN_IN_HOUR), Q(self.duration)))

\* A base method that returns a number instead of raising.
Training_get_spent_calories_silent(self) == Ok(Q(0))

Training_get_spent_calories(self) == Raise("NotImplementedError")

\* Running calories clamped at zero.
Running_get_spent_calories_clamped(self) ==
    LET speed == get_mean_speed(self)
        mins == hours_to_minutes(self)
        c == RMul(RDiv(RMul(RSub(RMul(Q(Running_K1), speed.val),
                                 Q(Running_K2)),
                            Q(self.weight)),
                       Q(M_IN_KM)),
                  mins.val)
    IN  IF ~IsOk(speed) THEN speed
        ELSE IF c[1] < 0 THEN Ok(Q(0)) ELSE Ok(c)

Running_get_spent_calories(self) ==
    LET speed == get_mean_speed(self)
        mins == hours_to_minutes(self)
    IN  IF ~IsOk(speed) THEN speed
        ELSE Ok(RMul(RDiv(RMul(RSub(RMul(Q(Running_K1), speed.val),
                                    Q(Running_K2)),
                               Q(self.weight)),
                          Q(M_IN_KM)),
                     mins.val))

\* Walking calories with / where the code has //.
SportsWalking_get_spent_calories_truediv(self) ==
    LET var_1 == RMul(SportsWalking_K1, Q(self.weight))
        speed == get_mean_speed(self)
        var_3 == RMul(SportsWalking_K2, Q(self.weight))
        var_4 == hours_to_minutes(self)
    IN  IF ~IsOk(speed) THEN speed
        ELSE IF self.height = 0 THEN Raise("ZeroDivisionError")
        ELSE LET var_2 == RDiv(RMul(speed.val, speed.val), Q(self.height))
             IN  Ok(RMul(RAdd(var_1, RMul(var_2, var_3)), var_4.val))

SportsWalking_get_spent_calories(self) ==
    LET var_1 == RMul(SportsWalking_K1, Q(self.weight))
        speed == get_mean_speed(self)
        var_3 == RMul(SportsWalking_K2, Q(self.weight))
        var_4 == hours_to_minutes(self)
    IN  IF ~IsOk(speed) THEN speed
        ELSE IF self.height = 0 THEN Raise("ZeroDivisionError")
        ELSE LET var_2 == RFloorDiv(RMul(speed.val, speed.val), Q(self.height))
             IN  Ok(RMul(RAdd(var_1, RMul(var_2, var_3)), var_4.val))

Swimming_get_spent_calories(self) ==
    LET speed == get_mean_speed(self) IN
    IF ~IsOk(speed) THEN speed
    ELSE Ok(RMul(RMul(RAdd(speed.val, Swimming_K1), Q(Swimming_K2)),
                 Q(self.weight)))

\* self.get_spent_calories(): the method the class of self resolves to.
get_spent_calories(self) ==
    CASE self.cls = "Running" -> Running_get_spent_calories(self)
      [] self.cls = "SportsWalking" -> SportsWalking_get_spent_calories(self)
      [] self.cls = "Swimming" -> Swimming_get_spent_calories(self)
      [] OTHER -> Training_get_spent_calories(self)

\* The InfoMessage dataclass: its five fields in declaration order.
InfoMessage(training_type, duration, distance, speed, calories) ==
    [training_type |-> training_type, duration |-> duration,
     distance |-> distance, speed |-> speed, calories |-> calories]

\* A show_training_info that hands speed and distance over in the wrong order.
show_training_info_swapped(self) ==
    LET distance == get_distance(self)
        speed == get_mean_speed(self)
        calories == get_spent_calories(self)
    IN  IF ~IsOk(distance) THEN distance
        ELSE IF ~IsOk(speed) THEN speed
        ELSE IF ~IsOk(calories) THEN calories
        ELSE Ok(InfoMessage(self.cls, self.duration, speed.val, distance.val,
                            calories.val))

\* Training.show_training_info: the first call that raises ends it.
show_training_info(self) ==
    LET class_name == self.cls
        duration == self.duration
        distance == get_distance(self)
        speed == get_mean_speed(self)
        calories == get_spent_calories(self)
    IN  IF ~IsOk(distance) THEN distance
        ELSE IF ~IsOk(speed) THEN speed
        ELSE IF ~IsOk(calories) THEN calories
        ELSE Ok(InfoMessage(class_name, duration, distance.val, speed.val,
                            calories.val))

\* The format specification ':.3f' applied to the rational r: the sign, the
\* whole part and the three decimals of r rounded to the nearest thousandth
\* (ties to the even one).
Fmt3(r) ==
    LET n == Abs(r[1])
        d == r[2]
        whole == n \div d
        rem == n % d
        lo == (rem * 1000) \div d
        twice == 2 * ((rem * 1000) % d)
        up == twice > d \/ (twice = d /\ lo % 2 = 1)
        m == whole * 1000 + lo + (IF up THEN 1 ELSE 0)
    IN  <<IF r[1] < 0 THEN "-" ELSE "", m \div 1000, m % 1000>>

\* InfoMessage.get_message: the f-string, as its five labelled parts in order
\* (the Russian labels are written in Latin letters).
get_message(info) ==
    << <<"Tip trenirovki", info.training_type>>,
       <<"Dlitelnost", Fmt3(Q(info.duration))>>,
       <<"Distantsiya", Fmt3(info.distance)>>,
       <<"Sr. skorost", Fmt3(info.speed)>>,
       <<"Potracheno kkal", Fmt3(info.calories)>> >>

\* main(training): the message handed to print, or the exception raised.
main(training) ==
    LET info == show_training_info(training) IN
    IF ~IsOk(info) THEN info ELSE Ok(get_message(info.val))

\* The dict of read_package: workout code -> class.
dict ==
    [c \in {"SWM", "RUN", "WLK"} |->
        CASE c = "SWM" -> "Swimming"
          [] c = "RUN" -> "Running"
          [] c = "WLK" -> "SportsWalking"]

\* A read_package that falls back to Running for a code it does not know.
read_package_default(workout_type, data) ==
    IF workout_type \notin DOMAIN dict THEN New("Running", data)
    ELSE New(dict[workout_type], data)

\* read_package: dict[workout_type] raises KeyError for a missing key, before
\* the constructor is called.
read_package(workout_type, data) ==
    IF workout_type \notin DOMAIN dict THEN Raise("KeyError")
    ELSE New(dict[workout_type], data)

\* The method named op called on self.
Invoke(op, self) ==
    CASE op = "get_distance" -> get_distance(self)
      [] op = "get_mean_speed" -> get_mean_speed(self)
      [] op = "get_spent_calories" -> get_spent_calories(self)
      [] op = "hours_to_minutes" -> hours_to_minutes(self)
      [] op = "show_training_info" -> show_training_info(self)

\* An hours_to_minutes that stores the minutes in self.duration.
After_storing(op, self) ==
    IF op = "hours_to_minutes"
    THEN [self EXCEPT !.duration = MIN_IN_HOUR * self.duration]
    ELSE self

\* The attributes of self after the method named op has run on it: no method
\* assigns to an attribute of self.
After(op, self) == self

Methods ==
    {"get_distance", "get_mean_speed", "get_spent_calories",
     "hours_to_minutes", "show_training_info"}

---------------------------------------------------------------------------
(* Inputs.                                                                 *)

\* The longest sequence of sensor values handed to a constructor.
MaxLen == 6

\* Every sequence of n values whose i-th value is drawn from values[i]
\* (from {1} beyond the end of values).
RECURSIVE DataOfLen(_, _)
DataOfLen(n, values) ==
    IF n = 0 THEN {<<>>}
    ELSE {Append(d, v) : d \in DataOfLen(n - 1, values),
                         v \in IF n <= Len(values) THEN values[n] ELSE {1}}

DataUpTo(n, values) == UNION {DataOfLen(k, values) : k \in 0..n}

Codes == {"SWM", "RUN", "WLK", "XYZ"}

\* Dispatch: every code with every length of package, few sensor values.
DispatchValues == << {720, 9000}, {0, 1}, {75}, {25, 180}, {40} >>
Datas == DataUpTo(MaxLen, DispatchValues)

\* Computation: the packages read_package accepts, and the value sequences
\* Training accepts, over a wider range of sensor values.
CalcValues ==
    << {0, 720, 9000, 40000}, {0, 1, 2}, {0, 75}, {0, 25, 180}, {20, 40} >>
CalcPackages ==
    {p \in Codes \X DataUpTo(MaxLen, CalcValues) : IsOk(read_package(p[1], p[2]))}
CalcDatas == {d \in DataUpTo(MaxLen, CalcValues) : IsOk(New("Training", d))}

\* Two objects at once: one package of each workout for every combination of
\* two step counts and two durations.
PairValues == << {720, 9000}, {0, 2}, {75}, {25}, {40} >>
PairPackages ==
    {p \in Codes \X DataUpTo(MaxLen, PairValues) : IsOk(read_package(p[1], p[2]))}
PairDatas == {d \in DataUpTo(MaxLen, PairValues) : IsOk(New("Training", d))}

MainSlots == {1}
PairSlots == {1, 2}

---------------------------------------------------------------------------
(* State.                                                                  *)

\* A variable that holds no object yet.
None == [cls |-> "None"]

NoCall == [op |-> "none", slot |-> 0, args |-> <<>>, out |-> Raise("none")]
NoMemo == [op |-> "none", slot |-> 0, out |-> Raise("none")]

Init ==
    /\ obj = [s \in PairSlots |-> None]
    /\ ret = NoCall
    /\ memo = NoMemo

\* The record of a call: its name, the variable it works on, its arguments
\* and its outcome.
Called(op, s, args, o) == [op |-> op, slot |-> s, args |-> args, out |-> o]

\* The caller's variables after s = <constructor call with outcome o>: a
\* call that raises binds nothing.
Bound(s, o) == IF IsOk(o) THEN [obj EXCEPT ![s] = o.val] ELSE obj

\* An outcome saved from the object that s held goes with that object.
Kept(s, o) == IF IsOk(o) /\ memo.slot = s THEN NoMemo ELSE memo

\* training = read_package(workout_type, data)
ReadPackage(s, workout_type, data) ==
    LET o == read_package(workout_type, data) IN
    /\ ret' = Called("read_package", s, <<workout_type, data>>, o)
    /\ obj' = Bound(s, o)
    /\ memo' = Kept(s, o)

\* training = Training(*data): the base class constructed directly.
NewTraining(s, data) ==
    LET o == New("Training", data) IN
    /\ ret' = Called("Training", s, <<data>>, o)
    /\ obj' = Bound(s, o)
    /\ memo' = Kept(s, o)

\* training.op() for one of the methods of Training.
Call(s, op) ==
    /\ obj[s] # None
    /\ ret' = Called(op, s, <<>>, Invoke(op, obj[s]))
    /\ obj' = [obj EXCEPT ![s] = After(op, obj[s])]
    /\ UNCHANGED memo

\* main(training)
Main(s) ==
    /\ obj[s] # None
    /\ ret' = Called("main", s, <<>>, main(obj[s]))
    /\ obj' = [obj EXCEPT ![s] = After("show_training_info", obj[s])]
    /\ UNCHANGED memo

\* The caller keeps the outcome of the method call it has just made.
Save ==
    /\ ret.op \in Methods
    /\ memo' = [op |-> ret.op, slot |-> ret.slot, out |-> ret.out]
    /\ UNCHANGED <<obj, ret>>

\* Dispatch and construction: one variable, rebound by every package read
\* as in the __main__ loop, with every code and every length of package.
Next ==
    \E s \in MainSlots :
        \/ \E c \in Codes, d \in Datas : ReadPackage(s, c, d)
        \/ \E d \in Datas : NewTraining(s, d)
        \/ \E op \in Methods : Call(s, op)
        \/ Main(s)

Spec == Init /\ [][Next]_vars

\* Computation: one variable, the packages that construct a record.
NextCalc ==
    \E s \in MainSlots :
        \/ \E p \in CalcPackages : ReadPackage(s, p[1], p[2])
        \/ \E d \in CalcDatas : NewTraining(s, d)
        \/ \E op \in Methods : Call(s, op)
        \/ Main(s)

SpecCalc == Init /\ [][NextCalc]_vars

\* Two variables holding two objects at once, and a saved outcome.
NextPair ==
    \/ \E s \in PairSlots :
        \/ \E p \in PairPackages : ReadPackage(s, p[1], p[2])
        \/ \E d \in PairDatas : NewTraining(s, d)
        \/ \E op \in Methods : Call(s, op)
    \/ Save

SpecPair == Init /\ [][NextPair]_vars

---------------------------------------------------------------------------
(* Properties.                                                             *)

Recognized == {"SWM", "RUN", "WLK"}

\* The number of values the specification gives for each workout code.
Required(code) ==
    CASE code = "SWM" -> 5
      [] code = "RUN" -> 3
      [] code = "WLK" -> 4

\* C1: read_package with a recognized code and a value sequence of the
\* matching length (SWM 5, RUN 3, WLK 4) returns a record of class Swimming,
\* Running, SportsWalking respectively, whose fields are the values in order,
\* unchanged: action, duration, weight, then height for WLK, or length_pool
\* and count_pool for SWM; the record has no other field.
C1_PositionalBinding ==
    (/\ ret.op = "read_package"
     /\ ret.args[1] \in Recognized
     /\ Len(ret.args[2]) = Required(ret.args[1]))
    => /\ IsOk(ret.out)
       /\ obj[ret.slot] = ret.out.val
       /\ LET code == ret.args[1]
              v == ret.args[2]
              r == ret.out.val
          IN  /\ r.action = v[1] /\ r.duration = v[2] /\ r.weight = v[3]
              /\ code = "RUN" =>
                    /\ r.cls = "Running"
                    /\ DOMAIN r = {"cls", "action", "duration", "weight"}
              /\ code = "WLK" =>
                    /\ r.cls = "SportsWalking"
                    /\ r.height = v[4]
                    /\ DOMAIN r = {"cls", "action", "duration", "weight",
                                   "height"}
              /\ code = "SWM" =>
                    /\ r.cls = "Swimming"
                    /\ r.length_pool = v[4] /\ r.count_pool = v[5]
                    /\ DOMAIN r = {"cls", "action", "duration", "weight",
                                   "length_pool", "count_pool"}

\* A Swimming record built from five values, pool length and count distinct.
C1_Witness ==
    /\ ret.op = "read_package"
    /\ ret.args = <<"SWM", <<720, 1, 75, 25, 40>>>>
    /\ IsOk(ret.out)
    /\ obj[1].cls = "Swimming"
    /\ obj[1].length_pool = 25 /\ obj[1].count_pool = 40

\* C2: read_package with a code outside {SWM, RUN, WLK} raises (KeyError),
\* whatever the values: it returns no record and the caller's variable keeps
\* what it held, so no default variant is substituted.
C2_UnknownCodeRaises ==
    [][(ret'.op = "read_package" /\ ret'.args[1] \notin Recognized)
        => /\ ret'.out = Raise("KeyError")
           /\ obj' = obj]_vars

\* An unknown code has raised while the variable still holds an earlier record.
C2_Witness ==
    /\ ret.op = "read_package"
    /\ ret.args = <<"XYZ", <<720, 1, 75>>>>
    /\ ret.out.kind = "KeyError"
    /\ obj[1] # None

\* C3: read_package with a recognized code raises (TypeError) and returns no
\* record whenever the number of values is not the one the variant requires,
\* with too few values and with too many alike; the variable keeps what it
\* held.
C3_ArityMismatchRaises ==
    [][(/\ ret'.op = "read_package"
        /\ ret'.args[1] \in Recognized
        /\ Len(ret'.args[2]) # Required(ret'.args[1]))
        => /\ ret'.out = Raise("TypeError")
           /\ obj' = obj]_vars

\* A RUN package with one value too many has raised; the variable still
\* holds the record of an earlier package.
C3_Witness ==
    /\ ret.op = "read_package"
    /\ ret.args = <<"RUN", <<720, 1, 75, 25>>>>
    /\ ret.out.kind = "TypeError"
    /\ obj[1] # None /\ obj[1].cls = "Swimming"

\* The two variables hold Swimming records that agree on everything but action.
SwimmingTwins(a, b) ==
    /\ obj[a].cls = "Swimming" /\ obj[b].cls = "Swimming"
    /\ obj[a].duration = obj[b].duration
    /\ obj[a].weight = obj[b].weight
    /\ obj[a].length_pool = obj[b].length_pool
    /\ obj[a].count_pool = obj[b].count_pool
    /\ obj[a].action # obj[b].action

\* C4: for two Swimming records that differ only in action, get_mean_speed
\* has the same outcome on both and get_spent_calories has the same outcome
\* on both (a returned value when duration is not 0, the same exception when
\* it is), while get_distance returns different values.  The outcome saved
\* from one record is compared with the outcome of the call on the other.
C4_ActionDoesNotFlow ==
    (/\ memo.op = ret.op
     /\ memo.slot \in PairSlots /\ ret.slot \in PairSlots
     /\ memo.slot # ret.slot
     /\ SwimmingTwins(memo.slot, ret.slot))
    => /\ ret.op \in {"get_mean_speed", "get_spent_calories"} =>
            /\ memo.out = ret.out
            /\ obj[ret.slot].duration # 0 => IsOk(ret.out)
       /\ ret.op = "get_distance" =>
            /\ IsOk(memo.out) /\ IsOk(ret.out)
            /\ memo.out.val # ret.out.val

\* Calories saved from one Swimming record and then computed on its twin.
C4_Witness ==
    /\ memo.op = "get_spent_calories" /\ ret.op = "get_spent_calories"
    /\ memo.slot = 1 /\ ret.slot = 2
    /\ SwimmingTwins(1, 2)
    /\ obj[1].duration = 2
    /\ IsOk(ret.out) /\ ret.out = memo.out

\* The walking calories computed from the fields of r with t as the
\* (speed^2 / height) term.
WalkingCalories(r, t) ==
    RMul(RAdd(RMul(<<35, 1000>>, Q(r.weight)),
              RMul(t, RMul(<<29, 1000>>, Q(r.weight)))),
         Q(r.duration * 60))

\* speed^2 / height for speed = action * 0.65 / 1000 / duration.
WalkingQuotient(r) ==
    LET speed == RDiv(Q(r.action * 65), Q(100 * 1000 * r.duration))
    IN  RDiv(RMul(speed, speed), Q(r.height))

Floor(q) == Q(q[1] \div q[2])

\* The last call is get_spent_calories on a SportsWalking record with
\* height > 0 and duration > 0.
WalkingCall ==
    /\ ret.op = "get_spent_calories"
    /\ obj[ret.slot].cls = "SportsWalking"
    /\ obj[ret.slot].height > 0
    /\ obj[ret.slot].duration > 0

\* C5 (as amended): for a SportsWalking record with height > 0 and
\* duration > 0, get_spent_calories returns
\* (0.035*weight + floor(speed^2/height) * 0.029*weight) * duration*60;
\* whenever speed^2/height has a fractional part and weight is not 0 this
\* differs from the value ordinary division gives; for (9000, 1, 75, 180)
\* the floored term is 0 and the result is 157.5.
C5_WalkingFloor ==
    WalkingCall =>
        LET r == obj[ret.slot]
            q == WalkingQuotient(r)
        IN  /\ ret.out = Ok(WalkingCalories(r, Floor(q)))
            /\ (q # Floor(q) /\ r.weight # 0) =>
                    ret.out.val # WalkingCalories(r, q)
            /\ (r.action = 9000 /\ r.duration = 1 /\ r.weight = 75
                    /\ r.height = 180) =>
                    Floor(q) = Q(0) /\ ret.out.val = <<315, 2>>

\* C5 as claimed: the result differs from ordinary division whenever
\* speed^2/height has a fractional part, whatever the weight.
C5_AsClaimed ==
    WalkingCall =>
        LET r == obj[ret.slot]
            q == WalkingQuotient(r)
        IN  /\ ret.out = Ok(WalkingCalories(r, Floor(q)))
            /\ q # Floor(q) => ret.out.val # WalkingCalories(r, q)

\* Walking calories where the floored term is 1 and the quotient 1.3689.
C5_Witness ==
    /\ WalkingCall
    /\ obj[ret.slot] = [cls |-> "SportsWalking", action |-> 9000,
                        duration |-> 1, weight |-> 75, height |-> 25]
    /\ WalkingQuotient(obj[ret.slot]) = <<13689, 10000>>
    /\ ret.out = Ok(Q(288))

ConcreteVariants == {"Running", "SportsWalking", "Swimming"}

\* The record r has a concrete variant and no zero divisor.
NonzeroDivisors(r) ==
    /\ r.cls \in ConcreteVariants
    /\ r.duration # 0
    /\ r.cls = "SportsWalking" => r.height # 0

\* The mean speed of the variant of r: pool geometry for Swimming,
\* distance / duration for the others.
VariantSpeed(r) ==
    IF r.cls = "Swimming"
    THEN RDiv(Q(r.length_pool * r.count_pool), Q(1000 * r.duration))
    ELSE RDiv(get_distance(r).val, Q(r.duration))

\* C6: for a record of a concrete variant with nonzero divisors,
\* show_training_info returns a summary whose fields are training_type = the
\* class name, duration = the record's duration, distance = get_distance(),
\* speed = the variant's get_mean_speed(), calories = the variant's
\* get_spent_calories(); the message main prints renders these five fields,
\* in this order, the four numbers to three decimals.
C6_SummaryFields ==
    (ret.op \in {"show_training_info", "main"}
        /\ NonzeroDivisors(obj[ret.slot]))
    => LET r == obj[ret.slot]
           distance == get_distance(r).val
           speed == VariantSpeed(r)
           calories == get_spent_calories(r).val
       IN  /\ IsOk(ret.out)
           /\ ret.op = "show_training_info" =>
                /\ DOMAIN ret.out.val = {"training_type", "duration",
                                         "distance", "speed", "calories"}
                /\ ret.out.val.training_type = r.cls
                /\ ret.out.val.duration = r.duration
                /\ ret.out.val.distance = distance
                /\ ret.out.val.speed = speed
                /\ ret.out.val.calories = calories
           /\ ret.op = "main" =>
                /\ Len(ret.out.val) = 5
                /\ ret.out.val[1][2] = r.cls
                /\ ret.out.val[2][2] = Fmt3(Q(r.duration))
                /\ ret.out.val[3][2] = Fmt3(distance)
                /\ ret.out.val[4][2] = Fmt3(speed)
                /\ ret.out.val[5][2] = Fmt3(calories)

\* The message of a Swimming record: 0.9936 km, 0.5 km/h, 240 kcal.
C6_Witness ==
    /\ ret.op = "main"
    /\ obj[ret.slot] = [cls |-> "Swimming", action |-> 720, duration |-> 2,
                        weight |-> 75, length_pool |-> 25, count_pool |-> 40]
    /\ ret.out = Ok(<< <<"Tip trenirovki", "Swimming">>,
                       <<"Dlitelnost", <<"", 2, 0>>>>,
                       <<"Distantsiya", <<"", 0, 994>>>>,
                       <<"Sr. skorost", <<"", 0, 500>>>>,
                       <<"Potracheno kkal", <<"", 240, 0>>>> >>)

\* C7: a package with duration = 0 builds a record of any of the three
\* variants (read_package does not validate), on which get_mean_speed,
\* show_training_info and main raise ZeroDivisionError and return nothing;
\* get_spent_calories raises it on a SportsWalking record with height = 0.
C7_ZeroDivisors ==
    /\ (ret.op = "read_package" /\ ret.args[1] \in Recognized
            /\ Len(ret.args[2]) = Required(ret.args[1])
            /\ ret.args[2][2] = 0)
        => /\ IsOk(ret.out)
           /\ ret.out.val.duration = 0
           /\ obj[ret.slot] = ret.out.val
    /\ (ret.op \in {"get_mean_speed", "show_training_info", "main"}
            /\ obj[ret.slot].cls \in ConcreteVariants
            /\ obj[ret.slot].duration = 0)
        => ret.out = Raise("ZeroDivisionError")
    /\ (ret.op = "get_spent_calories"
            /\ obj[ret.slot].cls = "SportsWalking"
            /\ obj[ret.slot].height = 0)
        => ret.out = Raise("ZeroDivisionError")

\* show_training_info has raised on a Swimming record of duration 0.
C7_Witness ==
    /\ ret.op = "show_training_info"
    /\ obj[ret.slot].cls = "Swimming"
    /\ obj[ret.slot].duration = 0
    /\ obj[ret.slot].length_pool = 25
    /\ ret.out = Raise("ZeroDivisionError")

\* C8: on a base Training record get_spent_calories raises
\* (NotImplementedError) whatever the fields, so show_training_info and main
\* raise too and yield no summary; read_package never returns a base record.
C8_BaseCaloriesRaise ==
    /\ (ret.op = "get_spent_calories" /\ obj[ret.slot].cls = "Training")
        => ret.out = Raise("NotImplementedError")
    /\ (ret.op \in {"show_training_info", "main"}
            /\ obj[ret.slot].cls = "Training")
        => ret.out \in {Raise("NotImplementedError"),
                        Raise("ZeroDivisionError")}
    /\ (ret.op = "read_package" /\ IsOk(ret.out))
        => ret.out.val.cls \in ConcreteVariants

\* show_training_info has raised NotImplementedError on a base record.
C8_Witness ==
    /\ ret.op = "show_training_info"
    /\ obj[ret.slot] = [cls |-> "Training", action |-> 9000, duration |-> 1,
                        weight |-> 75]
    /\ ret.out = Raise("NotImplementedError")

\* C9: a method call changes no field of any record; the outcome saved from
\* a call on a record is the outcome of that call on that record ever after
\* (failed calls included), whatever calls are made on it and on the other
\* record in between.
C9_PureReads ==
    [][/\ ret'.op \in Methods => obj' = obj
       /\ memo'.op \in Methods =>
            /\ Invoke(memo'.op, obj'[memo'.slot]) = memo'.out
            /\ (ret'.op = memo'.op /\ ret'.slot = memo'.slot)
                    => ret'.out = memo'.out]_vars

\* A failed call on record 1 was saved; hours_to_minutes then ran on
\* record 2; the saved outcome is still the outcome on record 1.
C9_Witness ==
    /\ memo.op = "get_spent_calories" /\ memo.slot = 1
    /\ memo.out = Raise("ZeroDivisionError")
    /\ ret.op = "hours_to_minutes" /\ ret.slot = 2
    /\ obj[2].cls = "SportsWalking" /\ obj[2].duration = 2
    /\ Invoke(memo.op, obj[1]) = memo.out

\* C10: for a Running record with weight > 0 and duration > 0,
\* get_spent_calories returns a negative value exactly when the mean speed
\* action*0.65/1000/duration is below 20/18 (action = 0 included), and a
\* non-negative one exactly when 18*speed >= 20.
C10_RunningCaloriesSign ==
    (/\ ret.op = "get_spent_calories"
     /\ obj[ret.slot].cls = "Running"
     /\ obj[ret.slot].weight > 0
     /\ obj[ret.slot].duration > 0)
    => LET r == obj[ret.slot]
           slow == 18 * 65 * r.action < 20 * 100 * 1000 * r.duration
       IN  /\ IsOk(ret.out)
           /\ slow <=> ret.out.val[1] < 0
           /\ ~slow <=> ret.out.val[1] >= 0
           /\ r.action = 0 => ret.out.val[1] < 0

\* 720 steps in an hour: 0.468 km/h, and -52.092 calories.
C10_Witness ==
    /\ ret.op = "get_spent_calories"
    /\ obj[ret.slot] = [cls |-> "Running", action |-> 720, duration |-> 1,
                        weight |-> 75]
    /\ ret.out = Ok(<<-13023, 250>>)

=============================================================================
